---- MODULE Spec2Model ----
(***************************************************************************)
(* Model of the claude-control gateway (danshank/haiper).                  *)
(*                                                                         *)
(* Spec        the decision coordinator: a blocking request                 *)
(*             (TaskService.CreateTaskAndWaitForDecision, answered by       *)
(*             WebhookHandler.handleBlockingWebhook), the rendezvous        *)
(*             registry (TaskDecisionManager), the task store and the      *)
(*             operator decision endpoints (WebHandler.handleTaskAction    *)
(*             and handleTaskActionAPI), interleaved statement by           *)
(*             statement at every access to shared state.                   *)
(* SpecRegistry the TaskDecisionManager alone: callers of WaitForDecision, *)
(*             senders of decisions and CleanupExpiredChannels.            *)
(***************************************************************************)
EXTENDS Integers, Sequences, FiniteSets, TLC

\* ------------------------------------------------------------------ bounds
\* operator requests of Spec
MaxOps == 2
\* callers of WaitForDecision and of SendDecision in SpecRegistry
MaxWaiters == 2
MaxSenders == 1
\* hook requests posted in SpecIngress
MaxRequests == 2
\* SpecManager: goroutines calling the manager
MaxCallers == 2
\* SpecTimes: the last reading of the clock
MaxClock == 5
\* the longest a statement on the tasks database takes, in seconds
MaxDbDelay == 2

\* ------------------------------------------------------- domain constants
TaskStatusPending == "pending"
TaskStatusApproved == "approved"
TaskStatusRejected == "rejected"
TaskStatusCompleted == "completed"
TaskStatusFailed == "failed"
\* no row in the tasks table
Absent == "absent"

ActionTypeApprove == "approve"
ActionTypeReject == "reject"
ActionTypeContinue == "continue"
ActionTypeRetry == "retry"
ActionTypeCancel == "cancel"
\* a nil *ActionType / the empty ActionType
NoAction == ""

ActionTypes ==
  {ActionTypeApprove, ActionTypeReject, ActionTypeContinue, ActionTypeRetry, ActionTypeCancel}

\* the actions operators submit in this model (the endpoints take any string)
ActionInputs == {ActionTypeApprove, ActionTypeReject}

\* the two decision endpoints: POST /task/{id}/action and POST /api/tasks/{id}/action
Endpoints == {"form", "api"}

\* What a decision endpoint answers: both answer 400 when uuid.Parse rejects
\* the task id and 500 when TakeAction returns an error; on success the form
\* handler redirects (303) and the JSON handler answers 200. The handlers
\* differ in nothing else that touches shared state.
StatusCode(endpoint, result) ==
  IF result = "invalid" THEN 400
  ELSE IF result = "error" THEN 500
  ELSE IF endpoint = "form" THEN 303 ELSE 200

HistoryActionCreated == "created"
HistoryActionNotified == "notified"

HookTypePreToolUse == "PreToolUse"
HookTypePostToolUse == "PostToolUse"
HookTypeNotification == "Notification"
HookTypeUserPromptSubmit == "UserPromptSubmit"
HookTypeStop == "Stop"
HookTypeSubagentStop == "SubagentStop"
HookTypePreCompact == "PreCompact"

\* HookType.IsValid
IsValid(h) ==
  h \in {HookTypePreToolUse, HookTypePostToolUse, HookTypeNotification,
         HookTypeUserPromptSubmit, HookTypeStop, HookTypeSubagentStop, HookTypePreCompact}

\* hook types a blocking request is made with in this model
HookTypeInputs == {HookTypePreToolUse, HookTypeNotification}

\* cmd/server/main.go hands NewTaskService this notify set
AutoNotifyHookTypes == {HookTypePreToolUse, HookTypeUserPromptSubmit}

shouldNotify(hookType) == hookType \in AutoNotifyHookTypes

\* --------------------------------------------------------- pure functions
\* an IsActionable that lets every stored task through
IsActionableAlways(task) == TRUE

\* Task.IsActionable
IsActionable(task) == task.status = TaskStatusPending

\* a TakeAction whose cancel case sets Completed
TakeActionCancelCompletes(task, action) ==
  [status |-> CASE action = ActionTypeApprove -> TaskStatusApproved
                [] action = ActionTypeReject -> TaskStatusRejected
                [] action = ActionTypeContinue -> TaskStatusCompleted
                [] action = ActionTypeCancel -> TaskStatusCompleted
                [] OTHER -> task.status,
   action |-> action]

\* Task.TakeAction: records the action, maps it to a status; an action outside
\* the switch leaves the status as it was.
TakeAction(task, action) ==
  [status |-> CASE action = ActionTypeApprove -> TaskStatusApproved
                [] action = ActionTypeReject -> TaskStatusRejected
                [] action = ActionTypeContinue -> TaskStatusCompleted
                [] action = ActionTypeCancel -> TaskStatusFailed
                [] OTHER -> task.status,
   action |-> action]

\* domain.NewTask: a Pending task without action
NewTask == [status |-> TaskStatusPending, action |-> NoAction]

\* The body of a response to the agent. hook = TRUE: a domain.HookResponse
\* (continue, stopReason, suppressOutput, and the internal Decision field);
\* hook = FALSE: the {"success": false, "error": ...} body of respondWithError.
HookBody(code, cont, reason, suppress, decision) ==
  [code |-> code, hook |-> TRUE, continue |-> cont, stopReason |-> reason,
   suppressOutput |-> suppress, decision |-> decision, error |-> ""]

ErrorBody(code, message) ==
  [code |-> code, hook |-> FALSE, continue |-> FALSE, stopReason |-> "",
   suppressOutput |-> FALSE, decision |-> NoAction, error |-> message]

NoResponse ==
  [code |-> 0, hook |-> FALSE, continue |-> FALSE, stopReason |-> "",
   suppressOutput |-> FALSE, decision |-> NoAction, error |-> ""]

NewApprovedResponse == HookBody(200, TRUE, "", FALSE, ActionTypeApprove)

\* a NewRejectedResponse that lets the agent continue
NewRejectedResponseContinues(reason) == HookBody(200, TRUE, reason, FALSE, ActionTypeReject)

NewRejectedResponse(reason) == HookBody(200, FALSE, reason, FALSE, ActionTypeReject)

\* 5*time.Minute as time.Duration.String() prints it
DecisionTimeout == "5m0s"

\* domain.NewTimeoutResponse
NewTimeoutResponse(timeout) ==
  HookBody(200, FALSE, "User decision timeout after " \o timeout, FALSE, NoAction)

\* a BuildResponseFromDecision that gives cancel the reason of reject
BuildResponseCancelAsReject(decision) ==
  CASE decision = ActionTypeApprove -> NewApprovedResponse
    [] decision = ActionTypeReject -> NewRejectedResponse("User rejected this action")
    [] decision = ActionTypeCancel -> NewRejectedResponse("User rejected this action")
    [] OTHER -> NewApprovedResponse

\* HookResponseBuilder.BuildResponseFromDecision
BuildResponseFromDecision(decision) ==
  CASE decision = ActionTypeApprove -> NewApprovedResponse
    [] decision = ActionTypeReject -> NewRejectedResponse("User rejected this action")
    [] decision = ActionTypeCancel -> NewRejectedResponse("User cancelled this action")
    [] OTHER -> NewApprovedResponse

\* ------------------------------------------------------------------ state
VARIABLES
  store,      \* tasks table: task id -> [status, action]; status Absent = no row
  history,    \* task_history table: task id -> sequence of action labels
  decisions,  \* TaskDecisionManager.decisions: the task ids that have an entry
  chans,      \* the channel made for a task id: [buf, closed]
  w,          \* the blocking request (waiter) of each task id
  resp,       \* the HTTP response written to the agent of each blocking request
  op,         \* the operator requests
  hreq,       \* SpecIngress: the hook request being served, or the last one served
  nreq,       \* SpecIngress: hook requests posted so far
  dom,        \* SpecDomain: a domain.Task and a HookResponse worked on by calls
  reg,        \* SpecManager: TaskDecisionManager.decisions, task id -> carrier (0 = no entry)
  carriers,   \* SpecManager: the channels made so far: [buf, closes]
  mu,         \* SpecManager: TaskDecisionManager.mutex: [writer, readers]
  calls,      \* SpecManager: the goroutines calling the manager
  tm          \* SpecTimes: the clock and the timestamps of one task

\* the variables of SpecDomain, SpecManager and SpecTimes
aux == <<dom, reg, carriers, mu, calls, tm>>

vars ==
  <<store, history, decisions, chans, w, resp, op, hreq, nreq, dom, reg, carriers, mu, calls, tm>>

\* notifier: the result of notificationSvc.Send for the task ("none": not called)
IdleWaiter ==
  [pc |-> "idle", hookType |-> "", cancelled |-> FALSE, outcome |-> "none",
   decision |-> NoAction, task |-> NewTask, notifier |-> "none"]

\* delivered: SendDecision returned true; wrote: TakeAction ran taskRepo.Update;
\* result: "ok" or "error" from TakeAction; late: the request started after the
\* task's waiter had timed out and stored Failed; early: the request was
\* answered after the task was persisted and before its waiter left the select;
\* restarted: the request started after the process that held the task's
\* waiter had exited and a new process had started.
IdleOp ==
  [pc |-> "idle", task |-> 0, action |-> NoAction, delivered |-> FALSE,
   snap |-> NewTask, wrote |-> FALSE, result |-> "none", late |-> FALSE,
   early |-> FALSE, restarted |-> FALSE]

\* the waiter of task t has stored the task and has not yet left its select
BeforeWake(t) == w[t].pc \in {"persisted", "logged", "ready", "parked"}

\* waited: the handler called CreateTaskAndWaitForDecision before it answered;
\* stored: the result of the handler's CreateTask call ("none": not called);
\* command, width: the number of characters of tool_input.command and the
\* number of bytes UTF-8 takes for each of them; bodySize: bytes of the body
IdleRequest ==
  [pc |-> "idle", slug |-> "", event |-> "", handler |-> "", hookType |-> "",
   waited |-> FALSE, stored |-> "none", resp |-> NoResponse,
   command |-> 0, width |-> 1, bodySize |-> 0]

\* a fresh task and no response built yet. action: the last action applied to
\* the task; decision, resp: the last decision a response was built from and
\* that response; decision0, resp0: the same for the call before it
IdleDom ==
  [task |-> NewTask, action |-> NoAction, decision |-> NoAction, resp |-> NoResponse,
   decision0 |-> NoAction, resp0 |-> NoResponse]

\* the clock before any task is made: no row, no copy in a request's hands.
\* deadline: the connection's write deadline; fires: when the timer of the
\* select fires; timedOut, written: how the wait and the write of the
\* response ended
IdleTimes ==
  [now |-> 1, pc |-> "idle", cancelled |-> FALSE,
   deadline |-> 0, fires |-> 0, timedOut |-> FALSE, written |-> "none",
   row |-> [status |-> Absent, action |-> NoAction, createdAt |-> 0, updatedAt |-> 0],
   copy |-> [status |-> Absent, action |-> NoAction, createdAt |-> 0, updatedAt |-> 0]]

InitDomain == dom = IdleDom /\ tm = IdleTimes

\* sync.RWMutex: the writer holding it (0 = none) and the readers holding it
FreeMutex == [writer |-> 0, readers |-> {}]

\* a goroutine outside the manager. wait: the call is made by WaitForDecision
IdleCall ==
  [pc |-> "idle", method |-> "", id |-> 0, decision |-> NoAction, ch |-> 0,
   wait |-> FALSE, result |-> "none"]

\* a slot of the heap that holds no channel
FreeCarrier == [buf |-> <<>>, closes |-> 0, live |-> FALSE]

\* NewTaskDecisionManager: an empty map; no channel made, mutex free. The
\* heap has a slot for each channel the map and the goroutines can refer to.
InitManager(ids, callers) ==
  /\ reg = [i \in ids |-> 0]
  /\ carriers = [k \in 1..(Cardinality(ids) + Cardinality(callers)) |-> FreeCarrier]
  /\ mu = FreeMutex
  /\ calls = [c \in callers |-> IdleCall]

\* the tasks table holds task0 with history hist0 for every task id
InitCore(tasks, ops, pc0, task0, hist0) ==
  /\ store = [t \in tasks |-> task0]
  /\ history = [t \in tasks |-> hist0]
  /\ decisions = {}
  /\ chans = [t \in tasks |-> [buf |-> <<>>, closed |-> FALSE]]
  /\ w = [t \in tasks |-> [IdleWaiter EXCEPT !.pc = pc0]]
  /\ resp = [t \in tasks |-> NoResponse]
  /\ op = [o \in ops |-> IdleOp]
  /\ hreq = IdleRequest
  /\ nreq = 0

InitOver(tasks, ops, pc0) ==
  /\ InitCore(tasks, ops, pc0, [status |-> Absent, action |-> NoAction], <<>>)
  /\ InitDomain
  /\ InitManager({}, {})

\* Spec follows one blocking request and the operator requests made for its
\* task id. Requests for distinct task ids share only the registry map, which
\* SpecRegistry runs with several waiters.
Init == InitOver({1}, 1..MaxOps, "idle")

\* ------------------------------------------------------- store operations
\* TaskRepository.Update: UPDATE tasks SET ... WHERE id = $1. The statement has
\* no condition on the stored status. db.ExecContext returns the context's
\* error without running the statement when ctx is already cancelled.
Update(ctxCancelled, t, task) ==
  IF ctxCancelled \/ store[t].status = Absent
    THEN store
    ELSE [store EXCEPT ![t] = task]

\* TaskHistoryRepository.Create: INSERT INTO task_history; same rule for ctx.
HistoryCreate(ctxCancelled, t, action) ==
  IF ctxCancelled
    THEN history
    ELSE [history EXCEPT ![t] = Append(@, action)]

\* ------------------------------------------- the blocking request (waiter)
\* CreateTaskAndWaitForDecision, lines 213-219: NewTask and taskRepo.Create.
\* Task ids are taken in order (uuid.New never repeats).
CreateTask(t, hookType) ==
  /\ w[t].pc = "idle"
  /\ IF t = 1 THEN TRUE ELSE w[t - 1].pc # "idle"
  /\ store' = [store EXCEPT ![t] = NewTask]
  /\ w' = [w EXCEPT ![t] = [IdleWaiter EXCEPT !.pc = "persisted", !.hookType = hookType]]
  /\ UNCHANGED <<history, decisions, chans, resp, op, hreq, nreq, aux>>

\* a service that logs the failure of taskRepo.Create and goes on
CreateTaskFailsGoesOn(t, hookType) ==
  /\ w[t].pc = "idle"
  /\ IF t = 1 THEN TRUE ELSE w[t - 1].pc # "idle"
  /\ w' = [w EXCEPT ![t] = [IdleWaiter EXCEPT !.pc = "persisted", !.hookType = hookType,
                                              !.outcome = "create_failed"]]
  /\ UNCHANGED <<store, history, decisions, chans, resp, op, hreq, nreq, aux>>

\* taskRepo.Create fails: the service returns the error and
\* handleBlockingWebhook answers 500.
CreateTaskFails(t, hookType) ==
  /\ w[t].pc = "idle"
  /\ IF t = 1 THEN TRUE ELSE w[t - 1].pc # "idle"
  /\ w' = [w EXCEPT ![t] = [IdleWaiter EXCEPT !.pc = "done", !.hookType = hookType,
                                              !.outcome = "create_failed"]]
  /\ resp' = [resp EXCEPT ![t] = ErrorBody(500, "Failed to process blocking webhook")]
  /\ UNCHANGED <<store, history, decisions, chans, op, hreq, nreq, aux>>

\* lines 221-229: the "created" history entry
RecordCreated(t) ==
  /\ w[t].pc = "persisted"
  /\ history' = HistoryCreate(w[t].cancelled, t, HistoryActionCreated)
  /\ w' = [w EXCEPT ![t].pc = "logged"]
  /\ UNCHANGED <<store, decisions, chans, resp, op, hreq, nreq, aux>>

\* the results notificationSvc.Send can have for a hook type: it is called
\* only for the notify set, and with a cancelled context its HTTP call fails
SendResults(hookType, ctxCancelled) ==
  IF ~shouldNotify(hookType) THEN {"none"}
  ELSE IF ctxCancelled THEN {"failed"}
  ELSE {"ok", "failed"}

\* a service that returns the notifier's error to the handler
NotifyPropagates(t) ==
  /\ w[t].pc = "logged"
  /\ \E sent \in SendResults(w[t].hookType, w[t].cancelled) :
       /\ history' = IF sent = "ok"
                       THEN HistoryCreate(w[t].cancelled, t, HistoryActionNotified)
                       ELSE history
       /\ w' = [w EXCEPT ![t].pc = IF sent = "failed" THEN "done" ELSE "ready",
                         ![t].notifier = sent]
       /\ resp' = IF sent = "failed"
                    THEN [resp EXCEPT ![t] = ErrorBody(500, "Failed to process blocking webhook")]
                    ELSE resp
  /\ UNCHANGED <<store, decisions, chans, op, hreq, nreq, aux>>

\* lines 231-236 and sendNotification: the notifier is called only for the
\* notify set; it may fail (error logged); on success the "notified" entry is
\* appended.
Notify(t) ==
  /\ w[t].pc = "logged"
  /\ \E sent \in SendResults(w[t].hookType, w[t].cancelled) :
       /\ history' = IF sent = "ok"
                       THEN HistoryCreate(w[t].cancelled, t, HistoryActionNotified)
                       ELSE history
       /\ w' = [w EXCEPT ![t].pc = "ready", ![t].notifier = sent]
  /\ UNCHANGED <<store, decisions, chans, resp, op, hreq, nreq, aux>>

\* WaitForDecision line 64: CreateDecisionChannel
CreateDecisionChannel(t) ==
  /\ w[t].pc = "ready"
  /\ chans' = [chans EXCEPT ![t] = [buf |-> <<>>, closed |-> FALSE]]
  /\ decisions' = decisions \cup {t}
  /\ w' = [w EXCEPT ![t].pc = "parked"]
  /\ UNCHANGED <<store, history, resp, op, hreq, nreq, aux>>

\* select, case decision := <-decisionChan. A receive from a closed, empty
\* channel succeeds at once with the zero value "".
ReceiveDecision(t) ==
  /\ w[t].pc = "parked"
  /\ chans[t].buf # <<>> \/ chans[t].closed
  /\ w' = [w EXCEPT ![t].pc = "woken", ![t].outcome = "decision",
                    ![t].decision = IF chans[t].buf # <<>> THEN Head(chans[t].buf)
                                                           ELSE NoAction]
  /\ chans' = [chans EXCEPT ![t].buf = <<>>]
  /\ UNCHANGED <<store, history, decisions, resp, op, hreq, nreq, aux>>

\* select, case <-time.After(timeout). The timer starts when the select is
\* entered, so it cannot fire while a decision sits in the channel: a value
\* buffered before the select is taken at once, and a value sent to a parked
\* select is handed to it directly.
TimeoutElapses(t) ==
  /\ w[t].pc = "parked"
  /\ chans[t].buf = <<>> /\ ~chans[t].closed
  /\ w' = [w EXCEPT ![t].pc = "woken", ![t].outcome = "timeout"]
  /\ UNCHANGED <<store, history, decisions, chans, resp, op, hreq, nreq, aux>>

\* select, case <-ctx.Done(); when a decision is buffered too, select picks
\* either ready case.
ContextDone(t) ==
  /\ w[t].pc = "parked"
  /\ w[t].cancelled
  /\ w' = [w EXCEPT ![t].pc = "woken", ![t].outcome = "cancelled"]
  /\ UNCHANGED <<store, history, decisions, chans, resp, op, hreq, nreq, aux>>

\* a RemoveDecisionChannel that closes the channel and keeps the map entry
RemoveDecisionChannelKeepsEntry(t) ==
  /\ w[t].pc = "woken"
  /\ chans' = [chans EXCEPT ![t].closed = TRUE]
  /\ w' = [w EXCEPT ![t].pc = "removed"]
  /\ UNCHANGED <<store, history, decisions, resp, op, hreq, nreq, aux>>

\* the deferred RemoveDecisionChannel: close and delete when the entry exists
RemoveDecisionChannel(t) ==
  /\ w[t].pc = "woken"
  /\ IF t \in decisions
       THEN /\ chans' = [chans EXCEPT ![t].closed = TRUE]
            /\ decisions' = decisions \ {t}
       ELSE UNCHANGED <<chans, decisions>>
  /\ w' = [w EXCEPT ![t].pc = "removed"]
  /\ UNCHANGED <<store, history, resp, op, hreq, nreq, aux>>

\* lines 240-246: on timeout or cancellation the waiter's own copy of the task
\* gets Status = Failed and is written with Update (error ignored); the error
\* goes back to handleBlockingWebhook, which answers 500 (lines 483-487).
FailTask(t) ==
  /\ w[t].pc = "removed"
  /\ w[t].outcome # "decision"
  /\ LET task == [w[t].task EXCEPT !.status = TaskStatusFailed] IN
       /\ store' = Update(w[t].cancelled, t, task)
       /\ w' = [w EXCEPT ![t].pc = "done", ![t].task = task]
  /\ resp' = [resp EXCEPT ![t] = ErrorBody(500, "Failed to process blocking webhook")]
  /\ UNCHANGED <<history, decisions, chans, op, hreq, nreq, aux>>

\* lines 248-253: task.TakeAction(decision) on the waiter's copy, then Update
ApplyDecision(t) ==
  /\ w[t].pc = "removed"
  /\ w[t].outcome = "decision"
  /\ LET task == TakeAction(w[t].task, w[t].decision) IN
       /\ store' = Update(w[t].cancelled, t, task)
       /\ w' = [w EXCEPT ![t].pc = "updated", ![t].task = task]
  /\ UNCHANGED <<history, decisions, chans, resp, op, hreq, nreq, aux>>

\* lines 255-261 and handleBlockingWebhook 489-493: the decision's history
\* entry, then the 200 response built from the decision.
RecordDecision(t) ==
  /\ w[t].pc = "updated"
  /\ history' = HistoryCreate(w[t].cancelled, t, w[t].decision)
  /\ resp' = [resp EXCEPT ![t] = BuildResponseFromDecision(w[t].decision)]
  /\ w' = [w EXCEPT ![t].pc = "done"]
  /\ UNCHANGED <<store, decisions, chans, op, hreq, nreq, aux>>

\* the agent closes its connection: net/http cancels r.Context()
AgentDisconnect(t) ==
  /\ w[t].pc \notin {"idle", "done"}
  /\ ~w[t].cancelled
  /\ w' = [w EXCEPT ![t].cancelled = TRUE]
  /\ UNCHANGED <<store, history, decisions, chans, resp, op, hreq, nreq, aux>>

\* ------------------------------------------------- the operator requests
\* handleTaskAction / handleTaskActionAPI up to HasPendingDecision. Operator
\* requests are numbered in the order they start.
OpStart(o, t, action) ==
  /\ op[o].pc = "idle"
  /\ IF o = 1 THEN TRUE ELSE op[o - 1].pc # "idle"
  /\ op' = [op EXCEPT ![o] =
       [IdleOp EXCEPT !.pc = IF t \in decisions THEN "checked" ELSE "sent",
                      !.task = t, !.action = action,
                      !.late = (store[t].status = TaskStatusFailed
                                /\ w[t].pc = "done" /\ w[t].outcome = "timeout"),
                      !.restarted = (w[t].pc = "crashed")]]
  /\ UNCHANGED <<store, history, decisions, chans, w, resp, hreq, nreq, aux>>

\* TaskDecisionManager.SendDecision: a non-blocking send on the registered
\* channel (capacity 1)
OpSendDecision(o) ==
  /\ op[o].pc = "checked"
  /\ LET t == op[o].task
         ok == t \in decisions /\ Len(chans[t].buf) = 0
     IN /\ chans' = IF ok THEN [chans EXCEPT ![t].buf = <<op[o].action>>] ELSE chans
        /\ op' = [op EXCEPT ![o].pc = "sent", ![o].delivered = ok]
  /\ UNCHANGED <<store, history, decisions, w, resp, hreq, nreq, aux>>

\* TaskService.TakeAction lines 127-138: GetByID, IsActionable, and
\* task.TakeAction on the loaded copy. An error makes the handler answer 500.
OpLoad(o) ==
  /\ op[o].pc = "sent"
  /\ LET t == op[o].task IN
       IF store[t].status = Absent \/ ~IsActionable(store[t])
         THEN op' = [op EXCEPT ![o].pc = "done", ![o].result = "error",
                               ![o].early = BeforeWake(t)]
         ELSE op' = [op EXCEPT ![o].pc = "loaded",
                               ![o].snap = TakeAction(store[t], op[o].action)]
  /\ UNCHANGED <<store, history, decisions, chans, w, resp, hreq, nreq, aux>>

\* a TakeAction that writes the task only while its waiter is registered
OpUpdateNeedsWaiter(o) ==
  /\ op[o].pc = "loaded"
  /\ store' = IF op[o].task \in decisions THEN Update(FALSE, op[o].task, op[o].snap)
                                           ELSE store
  /\ op' = [op EXCEPT ![o].pc = "updated", ![o].wrote = TRUE]
  /\ UNCHANGED <<history, decisions, chans, w, resp, hreq, nreq, aux>>

\* TaskService.TakeAction lines 140-143: taskRepo.Update of the loaded copy
OpUpdate(o) ==
  /\ op[o].pc = "loaded"
  /\ store' = Update(FALSE, op[o].task, op[o].snap)
  /\ op' = [op EXCEPT ![o].pc = "updated", ![o].wrote = TRUE]
  /\ UNCHANGED <<history, decisions, chans, w, resp, hreq, nreq, aux>>

\* TaskService.TakeAction lines 145-157 and the handler's answer: the history
\* entry, then the success answer (StatusCode).
OpFinish(o) ==
  /\ op[o].pc = "updated"
  /\ history' = HistoryCreate(FALSE, op[o].task, op[o].action)
  /\ op' = [op EXCEPT ![o].pc = "done", ![o].result = "ok",
                      ![o].early = BeforeWake(op[o].task)]
  /\ UNCHANGED <<store, decisions, chans, w, resp, hreq, nreq, aux>>

\* ------------------------------------------------------------ specification
Next ==
  \/ \E t \in DOMAIN w, hookType \in HookTypeInputs : CreateTask(t, hookType)
  \/ \E t \in DOMAIN w, hookType \in HookTypeInputs : CreateTaskFails(t, hookType)
  \/ \E t \in DOMAIN w : RecordCreated(t)
  \/ \E t \in DOMAIN w : Notify(t)
  \/ \E t \in DOMAIN w : CreateDecisionChannel(t)
  \/ \E t \in DOMAIN w : ReceiveDecision(t)
  \/ \E t \in DOMAIN w : TimeoutElapses(t)
  \/ \E t \in DOMAIN w : ContextDone(t)
  \/ \E t \in DOMAIN w : RemoveDecisionChannel(t)
  \/ \E t \in DOMAIN w : FailTask(t)
  \/ \E t \in DOMAIN w : ApplyDecision(t)
  \/ \E t \in DOMAIN w : RecordDecision(t)
  \/ \E t \in DOMAIN w : AgentDisconnect(t)
  \/ \E o \in DOMAIN op, t \in DOMAIN w, action \in ActionInputs : OpStart(o, t, action)
  \/ \E o \in DOMAIN op : OpSendDecision(o)
  \/ \E o \in DOMAIN op : OpLoad(o)
  \/ \E o \in DOMAIN op : OpUpdate(o)
  \/ \E o \in DOMAIN op : OpFinish(o)

Spec == Init /\ [][Next]_vars

\* ------------------------------------------------ the registry on its own
\* TaskDecisionManager.CleanupExpiredChannels: close and delete every entry
CleanupExpiredChannels ==
  /\ decisions # {}
  /\ chans' = [t \in DOMAIN chans |->
                IF t \in decisions THEN [chans[t] EXCEPT !.closed = TRUE] ELSE chans[t]]
  /\ decisions' = {}
  /\ UNCHANGED <<store, history, w, resp, op, hreq, nreq, aux>>

\* every caller is about to run WaitForDecision for its own task id
InitRegistry == InitOver(1..MaxWaiters, 1..MaxSenders, "ready")

NextRegistry ==
  \/ \E t \in DOMAIN w : CreateDecisionChannel(t)
  \/ \E t \in DOMAIN w : ReceiveDecision(t)
  \/ \E t \in DOMAIN w : TimeoutElapses(t)
  \/ \E t \in DOMAIN w : ContextDone(t)
  \/ \E t \in DOMAIN w : RemoveDecisionChannel(t)
  \/ \E t \in DOMAIN w : AgentDisconnect(t)
  \/ \E o \in DOMAIN op, t \in DOMAIN w, action \in ActionInputs : OpStart(o, t, action)
  \/ \E o \in DOMAIN op : OpSendDecision(o)
  \/ CleanupExpiredChannels

SpecRegistry == InitRegistry /\ [][NextRegistry]_vars

\* ------------------------------------------------- the hook ingress (router)
\* the last path segment of POST /webhook/<slug>: the routes RegisterRoutes
\* names, the three URLs CLAUDE_HOOKS_SETUP.md gives for blocking hooks, and a
\* hook type name
SlugInputs ==
  {"notification", "stop", "subagent-stop", "pre-tool-use", "post-tool-use",
   "user-prompt-submit", "pre-compact", "pre-tool-use-blocking",
   "notification-blocking", "user-prompt-submit-blocking", HookTypeUserPromptSubmit}

\* hook_event_name of the request body ("" = the field is missing)
EventInputs ==
  {"", HookTypePreToolUse, HookTypeNotification, HookTypeUserPromptSubmit, HookTypeStop}

\* WebhookHandler.RegisterRoutes: mux takes the first route that matches, the
\* {hookType} route matches every other single segment.
Route(slug) ==
  CASE slug = "notification" -> "handleNotification"
    [] slug = "stop" -> "handleStop"
    [] slug = "subagent-stop" -> "handleSubagentStop"
    [] slug = "pre-tool-use" -> "handlePreToolUse"
    [] slug = "post-tool-use" -> "handlePostToolUse"
    [] slug = "user-prompt-submit" -> "handleUserPromptSubmit"
    [] slug = "pre-compact" -> "handlePreCompact"
    [] OTHER -> "handleGenericWebhook"

\* the hook type a handler starts from; handleGenericWebhook parses the slug
\* and falls back to PreToolUse
HandlerHookType(handler, slug) ==
  CASE handler = "handleNotification" -> HookTypeNotification
    [] handler = "handleStop" -> HookTypeStop
    [] handler = "handleSubagentStop" -> HookTypeSubagentStop
    [] handler = "handlePreToolUse" -> HookTypePreToolUse
    [] handler = "handlePostToolUse" -> HookTypePostToolUse
    [] handler = "handleUserPromptSubmit" -> HookTypeUserPromptSubmit
    [] handler = "handlePreCompact" -> HookTypePreCompact
    [] OTHER -> IF IsValid(slug) THEN slug ELSE HookTypePreToolUse

\* handleNotification and handleStop build their own answer; every other
\* handler ends in handleNonBlockingWebhook
OwnAnswer(handler) == handler \in {"handleNotification", "handleStop"}

\* a POST /webhook/<slug> arrives and the router picks the handler
PostHook(slug, event) ==
  /\ hreq.pc \in {"idle", "answered"}
  /\ nreq < MaxRequests
  /\ nreq' = nreq + 1
  /\ hreq' = [IdleRequest EXCEPT !.pc = "routed", !.slug = slug, !.event = event,
                                 !.handler = Route(slug),
                                 !.hookType = HandlerHookType(Route(slug), slug)]
  /\ UNCHANGED <<store, history, decisions, chans, w, resp, op, aux>>

\* parseAndValidateRequest fails: 400
RejectHook ==
  /\ hreq.pc = "routed"
  /\ hreq' = [hreq EXCEPT !.pc = "answered", !.resp = ErrorBody(400, "Validation error")]
  /\ UNCHANGED <<store, history, decisions, chans, w, resp, op, nreq, aux>>

\* handleNonBlockingWebhook lines 345-357: a valid hook_event_name of the body
\* replaces the handler's hook type; handleNotification and handleStop keep theirs
ParseHook ==
  /\ hreq.pc = "routed"
  /\ hreq' = [hreq EXCEPT !.pc = "parsed",
                          !.hookType = IF ~OwnAnswer(hreq.handler) /\ IsValid(hreq.event)
                                         THEN hreq.event ELSE @]
  /\ UNCHANGED <<store, history, decisions, chans, w, resp, op, nreq, aux>>

\* whether a handler calls CreateTask for the hook type it ended with:
\* handleNonBlockingWebhook for PreToolUse and UserPromptSubmit only (lines
\* 364-368), handleNotification and handleStop always
CreatesTask(handler, hookType) ==
  OwnAnswer(handler) \/ hookType \in {HookTypePreToolUse, HookTypeUserPromptSubmit}

\* SuppressOutput of the answer: false in handleNotification, true in
\* handleStop and in handleNonBlockingWebhook
SuppressOutput(handler, hookType) == handler # "handleNotification"

\* TaskService.CreateTask(ctx, task), the call the immediate handlers make
\* with domain.NewTask(hookData): the store's create(task) inserts the task
\* as given, under its own id
TaskServiceCreateTask(t, task) == [store EXCEPT ![t] = task]

\* the handler's task is created for logging; a failure is logged and
\* ignored. Then the immediate answer is written.
AnswerHook ==
  /\ hreq.pc = "parsed"
  /\ \E created \in BOOLEAN :
       /\ created => CreatesTask(hreq.handler, hreq.hookType)
       /\ store' = IF created THEN TaskServiceCreateTask(nreq, NewTask) ELSE store
       /\ history' = IF created
                       THEN [history EXCEPT ![nreq] = <<HistoryActionCreated>>]
                       ELSE history
       /\ hreq' = [hreq EXCEPT
            !.pc = "answered",
            !.stored = IF created THEN "ok"
                       ELSE IF CreatesTask(hreq.handler, hreq.hookType) THEN "failed"
                       ELSE "none",
            !.resp = HookBody(200, TRUE, "", SuppressOutput(hreq.handler, hreq.hookType),
                              NoAction)]
  /\ UNCHANGED <<decisions, chans, w, resp, op, nreq, aux>>

InitIngress == InitOver(1..MaxRequests, {}, "idle")

NextIngress ==
  \/ \E slug \in SlugInputs, event \in EventInputs : PostHook(slug, event)
  \/ RejectHook
  \/ ParseHook
  \/ AnswerHook

SpecIngress == InitIngress /\ [][NextIngress]_vars

\* ================================================================== claims
TerminalStatuses ==
  {TaskStatusApproved, TaskStatusRejected, TaskStatusCompleted, TaskStatusFailed}

\* C1: once the stored status of a task is not Pending, no step of the waiter
\* or of an operator request changes that stored status.
C1_TerminalSticky ==
  [][\A t \in DOMAIN store :
        store[t].status \in TerminalStatuses => store'[t].status = store[t].status]_vars

\* the waiter of task t came back from WaitForDecision with decision d
WaiterReturnedWith(t, d) ==
  w[t].pc = "done" /\ w[t].outcome = "decision" /\ w[t].decision = d

\* C2: for a decision the ingress delivered to a registered waiter, once both
\* requests have finished exactly one of them is the writer: either the
\* waiter returned with that decision, or the ingress wrote the task itself.
C2_ExactlyOneWriter ==
  \A o \in DOMAIN op :
    (op[o].pc = "done" /\ op[o].delivered /\ w[op[o].task].pc = "done")
      => (WaiterReturnedWith(op[o].task, op[o].action) # op[o].wrote)

\* the URLs CLAUDE_HOOKS_SETUP.md configures for blocking hooks
BlockingSlugs ==
  {"pre-tool-use-blocking", "notification-blocking", "user-prompt-submit-blocking"}

\* the hook types the README lists as blocking
BlockingHookTypes == {HookTypePreToolUse, HookTypeNotification, HookTypeUserPromptSubmit}

\* C3: a PreToolUse, Notification or UserPromptSubmit hook request, or one
\* posted to a documented -blocking URL, is answered continue=true only after
\* the handler waited for the operator and with an operator decision.
C3_BlockingHooksWait ==
  (/\ hreq.pc = "answered"
   /\ hreq.slug \in BlockingSlugs \/ hreq.hookType \in BlockingHookTypes
   /\ hreq.resp.continue)
    => (hreq.waited /\ hreq.resp.decision # NoAction)

\* C4: when the one operator decision for a task was processed after the task
\* was persisted and before the waiter left its select (carrier open or not
\* yet open), and the agent stays connected, the agent is answered with the
\* response mapped from that decision.
C4_DecisionAnswered ==
  \A t \in DOMAIN w : \A o \in DOMAIN op :
    (/\ w[t].pc = "done" /\ ~w[t].cancelled
     /\ op[o].task = t /\ op[o].early
     /\ \A o2 \in DOMAIN op \ {o} : op[o2].pc = "idle")
      => resp[t] = BuildResponseFromDecision(op[o].action)

\* C5: a blocking request whose wait timed out is answered 200 with
\* continue=false and stopReason "User decision timeout after 5m0s", and the
\* task is stored Failed.
C5_TimeoutResponse ==
  \A t \in DOMAIN w :
    (w[t].pc = "done" /\ w[t].outcome = "timeout")
      => (resp[t] = NewTimeoutResponse(DecisionTimeout)
          /\ store[t].status = TaskStatusFailed)

\* C6: a blocking request that ended because the agent disconnected while it
\* was parked leaves the task stored Failed and its carrier closed and out of
\* the registry.
C6_CancelResolvesFailed ==
  \A t \in DOMAIN w :
    (w[t].pc = "done" /\ w[t].outcome = "cancelled")
      => (store[t].status = TaskStatusFailed /\ t \notin decisions /\ chans[t].closed)

TerminalWriters(t) ==
  {o \in DOMAIN op :
     op[o].task = t /\ op[o].wrote
     /\ TakeAction(NewTask, op[o].action).status \in TerminalStatuses}

\* C8: of the operator actions processed for one Pending task, at most one
\* writes the Pending-to-terminal transition (the others are refused).
C8_SingleTransition == \A t \in DOMAIN w : Cardinality(TerminalWriters(t)) <= 1

\* the waiters inside WaitForDecision: entry created, deferred removal not yet run
InFlight == {t \in DOMAIN w : w[t].pc \in {"parked", "woken"}}

\* C9: every registry entry belongs to a waiter that is inside WaitForDecision,
\* so the entries never outnumber those waiters and the registry is empty
\* when there is none.
C9_NoLeak ==
  /\ decisions \subseteq InFlight
  /\ Cardinality(decisions) <= Cardinality(InFlight)
  /\ InFlight = {} => decisions = {}

C9_Witness ==
  \E t \in DOMAIN w, t2 \in DOMAIN w :
    /\ w[t].pc = "removed" /\ w[t].outcome = "timeout"
    /\ w[t2].pc = "removed" /\ w[t2].outcome = "cancelled"
    /\ decisions = {}

\* history labels that record a terminal action
TerminalLabels ==
  {ActionTypeApprove, ActionTypeReject, ActionTypeContinue, ActionTypeCancel,
   "timeout", "failed"}

\* the status a terminal history label stands for
LabelStatus(label) ==
  CASE label = ActionTypeApprove -> TaskStatusApproved
    [] label = ActionTypeReject -> TaskStatusRejected
    [] label = ActionTypeContinue -> TaskStatusCompleted
    [] OTHER -> TaskStatusFailed

TerminalEntries(t) == {i \in DOMAIN history[t] : history[t][i] \in TerminalLabels}

\* C10: once a blocking request that got as far as waiting has returned, the
\* task's history holds exactly one terminal-action entry, and that entry
\* matches the stored status.
C10_OneTerminalEntry ==
  \A t \in DOMAIN w :
    (w[t].pc = "done" /\ w[t].outcome \in {"decision", "timeout", "cancelled"})
      => (/\ Cardinality(TerminalEntries(t)) = 1
          /\ \A i \in TerminalEntries(t) : LabelStatus(history[t][i]) = store[t].status)

\* the operator requests that have started
StartedOps == {o \in DOMAIN op : op[o].pc # "idle"}

\* C11: a blocking PreToolUse request whose notification was sent and whose
\* waiter received the approve that the one operator request delivered while
\* it was parked ends with the history [created, notified, approve].
C11_HistoryApproved ==
  \A t \in DOMAIN w : \A o \in DOMAIN op :
    (/\ w[t].pc = "done" /\ w[t].hookType = HookTypePreToolUse /\ ~w[t].cancelled
     /\ w[t].outcome = "decision"
     /\ Len(history[t]) >= 2 /\ history[t][2] = HistoryActionNotified
     /\ StartedOps = {o} /\ op[o].pc = "done" /\ op[o].task = t
     /\ op[o].delivered /\ op[o].action = ActionTypeApprove)
      => history[t] = <<HistoryActionCreated, HistoryActionNotified, ActionTypeApprove>>

\* C14: over the lifetime of a task's carrier at most one SendDecision
\* returns true.
C14_OneDelivery ==
  \A t \in DOMAIN w :
    Cardinality({o \in DOMAIN op : op[o].task = t /\ op[o].delivered}) <= 1

\* ------------------------------------------ the domain functions on their own
\* the strings handed to Task.TakeAction and BuildResponseFromDecision: the
\* ActionType constants, the empty ActionType and a string that is none of them
AnyActionInputs == ActionTypes \cup {NoAction, "later"}

\* task.TakeAction(action, ...) on the task at hand
DomTakeAction(action) ==
  /\ dom' = [dom EXCEPT !.task = TakeAction(dom.task, action), !.action = action]
  /\ UNCHANGED <<store, history, decisions, chans, w, resp, op, hreq, nreq, tm,
                 reg, carriers, mu, calls>>

\* BuildResponseFromDecision(taskID, decision)
DomBuildResponse(decision) ==
  /\ dom' = [dom EXCEPT !.decision0 = dom.decision, !.resp0 = dom.resp,
                        !.decision = decision,
                        !.resp = BuildResponseFromDecision(decision)]
  /\ UNCHANGED <<store, history, decisions, chans, w, resp, op, hreq, nreq, tm,
                 reg, carriers, mu, calls>>

InitDom == InitOver({}, {}, "idle")

NextDomain ==
  \/ \E action \in AnyActionInputs : DomTakeAction(action)
  \/ \E decision \in AnyActionInputs : DomBuildResponse(decision)

SpecDomain == InitDom /\ [][NextDomain]_vars

\* C17: a task a decision was applied to has that decision as action_taken, and
\* for approve, reject, continue, cancel its status is Approved, Rejected,
\* Completed, Failed.
C17_TakeActionMapping ==
  /\ dom.task.action = dom.action
  /\ dom.action = ActionTypeApprove => dom.task.status = TaskStatusApproved
  /\ dom.action = ActionTypeReject => dom.task.status = TaskStatusRejected
  /\ dom.action = ActionTypeContinue => dom.task.status = TaskStatusCompleted
  /\ dom.action = ActionTypeCancel => dom.task.status = TaskStatusFailed

C17_Witness ==
  dom.action = ActionTypeCancel /\ dom.task.status = TaskStatusFailed
  /\ dom.task.action = ActionTypeCancel

\* C18: every decision value gives a response: approve, continue and every
\* value outside the switch give continue=true with an empty stopReason; reject
\* gives continue=false "User rejected this action"; cancel gives
\* continue=false "User cancelled this action".
C18_ResponseMappingTotal ==
  dom.resp # NoResponse =>
    /\ dom.resp.hook /\ dom.resp.code = 200
    /\ dom.decision = ActionTypeReject =>
         (~dom.resp.continue /\ dom.resp.stopReason = "User rejected this action")
    /\ dom.decision = ActionTypeCancel =>
         (~dom.resp.continue /\ dom.resp.stopReason = "User cancelled this action")
    /\ dom.decision \notin {ActionTypeReject, ActionTypeCancel} =>
         (dom.resp.continue /\ dom.resp.stopReason = "")

C18_Witness ==
  /\ dom.decision = "later" /\ dom.resp.continue
  /\ dom.decision0 = ActionTypeCancel /\ ~dom.resp0.continue

\* what a minimal client reads of a response
ReadBack(r) == [continue |-> r.continue, stopReason |-> r.stopReason]

\* the decisions a carrier is specified to carry
CarrierDecisions ==
  {ActionTypeApprove, ActionTypeReject, ActionTypeContinue, ActionTypeCancel}

\* C19 as stated: two decisions of {approve, reject, continue, cancel} whose
\* responses read back the same are the same decision (the decision can be
\* recovered from continue and stopReason).
C19_RoundTripAll ==
  (/\ dom.decision \in CarrierDecisions /\ dom.decision0 \in CarrierDecisions
   /\ ReadBack(dom.resp) = ReadBack(dom.resp0))
    => dom.decision = dom.decision0

\* C19: approve, reject and cancel are recovered from continue and stopReason;
\* continue reads back exactly as approve does.
C19_RoundTrip ==
  /\ (/\ dom.decision \in CarrierDecisions \ {ActionTypeContinue}
      /\ dom.decision0 \in CarrierDecisions \ {ActionTypeContinue}
      /\ ReadBack(dom.resp) = ReadBack(dom.resp0))
       => dom.decision = dom.decision0
  /\ (dom.decision = ActionTypeContinue /\ dom.decision0 = ActionTypeApprove)
       => ReadBack(dom.resp) = ReadBack(dom.resp0)

C19_Witness ==
  \/ dom.decision = ActionTypeReject /\ dom.decision0 = ActionTypeCancel
  \/ dom.decision = ActionTypeContinue /\ dom.decision0 = ActionTypeApprove

\* ------------------------------- operator requests on a task without waiter
\* the action values the decision endpoints take: any non-empty string
EndpointInputs == AnyActionInputs \ {NoAction}

\* a Pending task stored earlier by CreateTaskFromHook with its "created"
\* entry; no blocking request waits for it
InitOperator ==
  /\ InitCore({1}, 1..MaxOps, "idle", NewTask, <<HistoryActionCreated>>)
  /\ InitDomain
  /\ InitManager({}, {})

NextOperator ==
  \/ \E o \in DOMAIN op, t \in DOMAIN w, action \in EndpointInputs : OpStart(o, t, action)
  \/ \E o \in DOMAIN op : OpLoad(o)
  \/ \E o \in DOMAIN op : OpUpdate(o)
  \/ \E o \in DOMAIN op : OpFinish(o)

SpecOperator == InitOperator /\ [][NextOperator]_vars

\* C20: a stored task has no action_taken while its status is Pending, and an
\* action_taken it has is one of approve, reject, continue, cancel.
C20_ActionTakenValues ==
  \A t \in DOMAIN store :
    store[t].status # Absent =>
      /\ store[t].status = TaskStatusPending => store[t].action = NoAction
      /\ store[t].action # NoAction => store[t].action \in CarrierDecisions

\* ------------------------------- the TaskDecisionManager, call by call
\* make(chan domain.ActionType, 1)
ChanCap == 1

\* the task ids the goroutines pass. Every method but GetActiveDecisions
\* and CleanupExpiredChannels touches only the map entry of the id it is
\* given, so the calls are made for one task.
ManagerIds == {1}

\* methods that take m.mutex.Lock() and methods that take m.mutex.RLock()
WriteMethods == {"CreateDecisionChannel", "RemoveDecisionChannel", "CleanupExpiredChannels"}
ReadMethods == {"SendDecision", "GetActiveDecisions", "HasPendingDecision"}

\* the goroutines that hold the mutex
LockHolders == (IF mu.writer # 0 THEN {mu.writer} ELSE {}) \cup mu.readers

\* the garbage collector: a channel that neither the map nor a goroutine
\* refers to is gone, and its slot is free again
Collect(cs, rg, cl) ==
  [k \in DOMAIN cs |->
     IF (\E i \in DOMAIN rg : rg[i] = k) \/ (\E c \in DOMAIN cl : cl[c].ch = k)
       THEN cs[k] ELSE FreeCarrier]

\* make(chan domain.ActionType, 1) takes the first free slot
NewSlot == CHOOSE k \in DOMAIN carriers :
             ~carriers[k].live /\ \A j \in DOMAIN carriers : j < k => carriers[j].live

\* close(ch): closing a closed channel panics; closes = 2 records that
Close(ch) == [ch EXCEPT !.closes = IF @ < 2 THEN @ + 1 ELSE @]

\* a goroutine calls CreateDecisionChannel, RemoveDecisionChannel or
\* CleanupExpiredChannels, and m.mutex.Lock() returns: no writer and no
\* reader holds the mutex. Until then the goroutine is blocked in Lock().
Lock(c, method, id) ==
  /\ calls[c].pc = "idle"
  /\ method \in WriteMethods
  /\ (id # 0) = (method # "CleanupExpiredChannels")
  /\ mu.writer = 0 /\ mu.readers = {}
  /\ mu' = [mu EXCEPT !.writer = c]
  /\ calls' = [calls EXCEPT ![c] = [IdleCall EXCEPT !.pc = "locked", !.method = method,
                                                    !.id = id]]
  /\ UNCHANGED <<store, history, decisions, chans, w, resp, op, hreq, nreq, tm,
                 dom, reg, carriers>>

\* a goroutine calls SendDecision, GetActiveDecisions or HasPendingDecision,
\* and m.mutex.RLock() returns: no writer holds the mutex
RLock(c, method, id, decision) ==
  /\ calls[c].pc = "idle"
  /\ method \in ReadMethods
  /\ (decision # NoAction) = (method = "SendDecision")
  /\ (id # 0) = (method # "GetActiveDecisions")
  /\ mu.writer = 0
  /\ mu' = [mu EXCEPT !.readers = @ \cup {c}]
  /\ calls' = [calls EXCEPT ![c] = [IdleCall EXCEPT !.pc = "locked", !.method = method,
                                                    !.id = id, !.decision = decision]]
  /\ UNCHANGED <<store, history, decisions, chans, w, resp, op, hreq, nreq, tm,
                 dom, reg, carriers>>

\* a goroutine calls WaitForDecision(ctx, id, timeout), which calls
\* CreateDecisionChannel, and m.mutex.Lock() returns
WaitForDecision(c, id) ==
  /\ calls[c].pc = "idle"
  /\ mu.writer = 0 /\ mu.readers = {}
  /\ mu' = [mu EXCEPT !.writer = c]
  /\ calls' = [calls EXCEPT ![c] = [IdleCall EXCEPT !.pc = "locked",
                                                    !.method = "CreateDecisionChannel",
                                                    !.id = id, !.wait = TRUE]]
  /\ UNCHANGED <<store, history, decisions, chans, w, resp, op, hreq, nreq, tm,
                 dom, reg, carriers>>

\* Unlock as it would be if WaitForDecision kept the mutex across its select
UnlockHeldAcrossSelect(c) ==
  /\ calls[c].pc = "unlocking"
  /\ mu' = IF calls[c].wait /\ calls[c].method = "CreateDecisionChannel"
             THEN mu
             ELSE [writer |-> IF mu.writer = c THEN 0 ELSE mu.writer,
                   readers |-> mu.readers \ {c}]
  /\ calls' = [calls EXCEPT ![c] =
                 IF calls[c].wait /\ calls[c].method = "CreateDecisionChannel"
                   THEN [calls[c] EXCEPT !.pc = "parked", !.result = "none"]
                   ELSE IdleCall]
  /\ carriers' = Collect(carriers, reg, calls')
  /\ UNCHANGED <<store, history, decisions, chans, w, resp, op, hreq, nreq, tm, dom, reg>>

\* the deferred Unlock / RUnlock as the method returns. WaitForDecision goes
\* on to its select after CreateDecisionChannel and returns after
\* RemoveDecisionChannel.
Unlock(c) ==
  /\ calls[c].pc = "unlocking"
  /\ mu' = [writer |-> IF mu.writer = c THEN 0 ELSE mu.writer, readers |-> mu.readers \ {c}]
  /\ calls' = [calls EXCEPT ![c] =
                 IF calls[c].wait /\ calls[c].method = "CreateDecisionChannel"
                   THEN [calls[c] EXCEPT !.pc = "parked", !.result = "none"]
                   ELSE IdleCall]
  /\ carriers' = Collect(carriers, reg, calls')
  /\ UNCHANGED <<store, history, decisions, chans, w, resp, op, hreq, nreq, tm, dom, reg>>

\* CreateDecisionChannel as it would be if it handed out a channel that is
\* already registered under another id
MgrCreateSharesChannel(c) ==
  /\ calls[c].pc = "locked"
  /\ calls[c].method = "CreateDecisionChannel"
  /\ LET used == {reg[i] : i \in DOMAIN reg} \ {0}
         k == IF used # {} THEN CHOOSE u \in used : TRUE ELSE NewSlot
     IN /\ carriers' = IF used # {} THEN carriers
                        ELSE [carriers EXCEPT ![k] = [buf |-> <<>>, closes |-> 0,
                                                      live |-> TRUE]]
        /\ reg' = [reg EXCEPT ![calls[c].id] = k]
        /\ calls' = [calls EXCEPT ![c].pc = "unlocking", ![c].ch = k,
                                   ![c].result = "made"]
  /\ UNCHANGED <<store, history, decisions, chans, w, resp, op, hreq, nreq, tm, dom, mu>>

\* the body of CreateDecisionChannel, under Lock
MgrCreateDecisionChannel(c) ==
  /\ calls[c].pc = "locked"
  /\ calls[c].method = "CreateDecisionChannel"
  /\ carriers' = [carriers EXCEPT ![NewSlot] = [buf |-> <<>>, closes |-> 0, live |-> TRUE]]
  /\ reg' = [reg EXCEPT ![calls[c].id] = NewSlot]
  /\ calls' = [calls EXCEPT ![c].pc = "unlocking", ![c].ch = NewSlot,
                             ![c].result = "made"]
  /\ UNCHANGED <<store, history, decisions, chans, w, resp, op, hreq, nreq, tm, dom, mu>>

\* SendDecision as it would be if it reported true whenever the entry exists
MgrSendDecisionIgnoresFull(c) ==
  /\ calls[c].pc = "locked"
  /\ calls[c].method = "SendDecision"
  /\ LET k == reg[calls[c].id] IN
       IF k = 0
         THEN /\ calls' = [calls EXCEPT ![c].pc = "unlocking", ![c].result = "false"]
              /\ UNCHANGED carriers
         ELSE /\ calls' = [calls EXCEPT ![c].pc = "unlocking", ![c].result = "true"]
              /\ carriers' = IF Len(carriers[k].buf) < ChanCap
                                THEN [carriers EXCEPT ![k].buf = Append(@, calls[c].decision)]
                                ELSE carriers
  /\ UNCHANGED <<store, history, decisions, chans, w, resp, op, hreq, nreq, tm, dom, reg, mu>>

\* the body of SendDecision, under RLock: the select with a default case.
\* A send on a closed channel panics.
MgrSendDecision(c) ==
  /\ calls[c].pc = "locked"
  /\ calls[c].method = "SendDecision"
  /\ LET k == reg[calls[c].id] IN
       IF k = 0
         THEN /\ calls' = [calls EXCEPT ![c].pc = "unlocking", ![c].result = "false"]
              /\ UNCHANGED carriers
         ELSE IF carriers[k].closes > 0
           THEN /\ calls' = [calls EXCEPT ![c].pc = "unlocking", ![c].result = "panic"]
                /\ UNCHANGED carriers
           ELSE IF Len(carriers[k].buf) < ChanCap
             THEN /\ calls' = [calls EXCEPT ![c].pc = "unlocking", ![c].result = "true"]
                  /\ carriers' = [carriers EXCEPT ![k].buf = Append(@, calls[c].decision)]
             ELSE /\ calls' = [calls EXCEPT ![c].pc = "unlocking", ![c].result = "false"]
                  /\ UNCHANGED carriers
  /\ UNCHANGED <<store, history, decisions, chans, w, resp, op, hreq, nreq, tm, dom, reg, mu>>

\* RemoveDecisionChannel as it would be if it closed without delete
MgrRemoveKeepsEntry(c) ==
  /\ calls[c].pc = "locked"
  /\ calls[c].method = "RemoveDecisionChannel"
  /\ LET k == reg[calls[c].id] IN
       IF k = 0
         THEN /\ calls' = [calls EXCEPT ![c].pc = "unlocking", ![c].result = "absent"]
              /\ UNCHANGED carriers
         ELSE /\ calls' = [calls EXCEPT ![c].pc = "unlocking", ![c].result = "closed"]
              /\ carriers' = [carriers EXCEPT ![k] = Close(@)]
  /\ UNCHANGED <<store, history, decisions, chans, w, resp, op, hreq, nreq, tm, dom, reg, mu>>

\* the body of RemoveDecisionChannel, under Lock
MgrRemoveDecisionChannel(c) ==
  /\ calls[c].pc = "locked"
  /\ calls[c].method = "RemoveDecisionChannel"
  /\ LET k == reg[calls[c].id] IN
       IF k = 0
         THEN /\ calls' = [calls EXCEPT ![c].pc = "unlocking", ![c].result = "absent"]
              /\ UNCHANGED <<carriers, reg>>
         ELSE /\ calls' = [calls EXCEPT ![c].pc = "unlocking", ![c].result = "closed"]
              /\ carriers' = [carriers EXCEPT ![k] = Close(@)]
              /\ reg' = [reg EXCEPT ![calls[c].id] = 0]
  /\ UNCHANGED <<store, history, decisions, chans, w, resp, op, hreq, nreq, tm, dom, mu>>

\* the body of GetActiveDecisions, under RLock: len(m.decisions)
MgrGetActiveDecisions(c) ==
  /\ calls[c].pc = "locked"
  /\ calls[c].method = "GetActiveDecisions"
  /\ calls' = [calls EXCEPT ![c].pc = "unlocking",
                             ![c].result = Cardinality({i \in DOMAIN reg : reg[i] # 0})]
  /\ UNCHANGED <<store, history, decisions, chans, w, resp, op, hreq, nreq, tm,
                 dom, reg, carriers, mu>>

\* the body of HasPendingDecision, under RLock
MgrHasPendingDecision(c) ==
  /\ calls[c].pc = "locked"
  /\ calls[c].method = "HasPendingDecision"
  /\ calls' = [calls EXCEPT ![c].pc = "unlocking",
                             ![c].result = IF reg[calls[c].id] # 0 THEN "true" ELSE "false"]
  /\ UNCHANGED <<store, history, decisions, chans, w, resp, op, hreq, nreq, tm,
                 dom, reg, carriers, mu>>

\* CleanupExpiredChannels as it would be if it closed every channel and left
\* the map as it is
MgrCleanupClosesOnly(c) ==
  /\ calls[c].pc = "locked"
  /\ calls[c].method = "CleanupExpiredChannels"
  /\ carriers' = [k \in DOMAIN carriers |->
                    IF \E i \in DOMAIN reg : reg[i] = k THEN Close(carriers[k])
                                                        ELSE carriers[k]]
  /\ calls' = [calls EXCEPT ![c].pc = "unlocking", ![c].result = "drained"]
  /\ UNCHANGED <<store, history, decisions, chans, w, resp, op, hreq, nreq, tm, dom, reg, mu>>

\* the body of CleanupExpiredChannels, under Lock: close and delete every entry
MgrCleanupExpiredChannels(c) ==
  /\ calls[c].pc = "locked"
  /\ calls[c].method = "CleanupExpiredChannels"
  /\ carriers' = [k \in DOMAIN carriers |->
                    IF \E i \in DOMAIN reg : reg[i] = k THEN Close(carriers[k])
                                                        ELSE carriers[k]]
  /\ reg' = [i \in DOMAIN reg |-> 0]
  /\ calls' = [calls EXCEPT ![c].pc = "unlocking", ![c].result = "drained"]
  /\ UNCHANGED <<store, history, decisions, chans, w, resp, op, hreq, nreq, tm, dom, mu>>

\* WaitForDecision's select, case decision := <-decisionChan. A receive on a
\* closed and empty channel returns the zero value.
WaitReceive(c) ==
  /\ calls[c].pc = "parked"
  /\ LET ch == carriers[calls[c].ch] IN
       /\ ch.buf # <<>> \/ ch.closes > 0
       /\ calls' = [calls EXCEPT ![c].pc = "woken",
                                  ![c].decision = IF ch.buf # <<>> THEN Head(ch.buf)
                                                                  ELSE NoAction,
                                  ![c].result = "decision"]
       /\ carriers' = [carriers EXCEPT ![calls[c].ch].buf = IF @ # <<>> THEN Tail(@) ELSE @]
  /\ UNCHANGED <<store, history, decisions, chans, w, resp, op, hreq, nreq, tm, dom, reg, mu>>

\* WaitForDecision's select, case <-time.After(timeout)
WaitTimeout(c) ==
  /\ calls[c].pc = "parked"
  /\ calls' = [calls EXCEPT ![c].pc = "woken", ![c].result = "timeout"]
  /\ UNCHANGED <<store, history, decisions, chans, w, resp, op, hreq, nreq, tm,
                 dom, reg, carriers, mu>>

\* WaitForDecision's select, case <-ctx.Done()
WaitContextDone(c) ==
  /\ calls[c].pc = "parked"
  /\ calls' = [calls EXCEPT ![c].pc = "woken", ![c].result = "cancelled"]
  /\ UNCHANGED <<store, history, decisions, chans, w, resp, op, hreq, nreq, tm,
                 dom, reg, carriers, mu>>

\* WaitForDecision returns: the deferred m.RemoveDecisionChannel(taskID)
\* runs, and its m.mutex.Lock() returns
WaitDeferredRemove(c) ==
  /\ calls[c].pc = "woken"
  /\ mu.writer = 0 /\ mu.readers = {}
  /\ mu' = [mu EXCEPT !.writer = c]
  /\ calls' = [calls EXCEPT ![c] = [IdleCall EXCEPT !.pc = "locked",
                                                    !.method = "RemoveDecisionChannel",
                                                    !.id = calls[c].id, !.ch = calls[c].ch,
                                                    !.wait = TRUE]]
  /\ UNCHANGED <<store, history, decisions, chans, w, resp, op, hreq, nreq, tm,
                 dom, reg, carriers>>

\* the decision a goroutine passes to SendDecision: one value for each
\* goroutine, approve and reject in turn
SenderDecision(c) == IF c % 2 = 1 THEN ActionTypeApprove ELSE ActionTypeReject

InitManagerCalls ==
  /\ InitCore({}, {}, "idle", [status |-> Absent, action |-> NoAction], <<>>)
  /\ InitDomain
  /\ InitManager(ManagerIds, 1..MaxCallers)

NextManager ==
  \/ \E c \in 1..MaxCallers, method \in WriteMethods, id \in ManagerIds \cup {0} : Lock(c, method, id)
  \/ \E c \in 1..MaxCallers, method \in ReadMethods, id \in ManagerIds \cup {0} :
        \E decision \in {SenderDecision(c), NoAction} : RLock(c, method, id, decision)
  \/ \E c \in 1..MaxCallers, id \in ManagerIds : WaitForDecision(c, id)
  \/ \E c \in 1..MaxCallers : MgrCreateDecisionChannel(c)
  \/ \E c \in 1..MaxCallers : MgrSendDecision(c)
  \/ \E c \in 1..MaxCallers : MgrRemoveDecisionChannel(c)
  \/ \E c \in 1..MaxCallers : MgrGetActiveDecisions(c)
  \/ \E c \in 1..MaxCallers : MgrHasPendingDecision(c)
  \/ \E c \in 1..MaxCallers : MgrCleanupExpiredChannels(c)
  \/ \E c \in 1..MaxCallers : WaitReceive(c)
  \/ \E c \in 1..MaxCallers : WaitTimeout(c)
  \/ \E c \in 1..MaxCallers : WaitContextDone(c)
  \/ \E c \in 1..MaxCallers : WaitDeferredRemove(c)
  \/ \E c \in 1..MaxCallers : Unlock(c)

SpecManager == InitManagerCalls /\ [][NextManager]_vars

\* a goroutine c takes the step that runs the body of the method
Runs(c, method) ==
  /\ calls[c].pc = "locked"
  /\ calls[c].method = method
  /\ calls'[c].pc = "unlocking"

\* C12: opening a carrier for a task id that already has an entry in the
\* registry does not overwrite it: whenever CreateDecisionChannel runs for an
\* id whose entry exists, the entry still names the same carrier afterwards,
\* so the carrier a waiter is parked on stays the registered one.
C12_OpenNeverOverwrites ==
  [][\A c \in DOMAIN calls :
       (Runs(c, "CreateDecisionChannel") /\ reg[calls[c].id] # 0)
         => reg'[calls[c].id] = reg[calls[c].id]]_vars

\* C13: SendDecision returns true exactly when a carrier is registered under
\* the id and its single slot is empty at that moment, and then the decision
\* is in the slot; otherwise (no entry, or slot full) it returns false and
\* changes neither the registry nor any carrier. It never blocks: a goroutine
\* that holds the read lock for SendDecision can always run it, and it never
\* meets a closed carrier.
C13_DeliverResult ==
  /\ [](\A c \in DOMAIN calls :
          (calls[c].pc = "locked" /\ calls[c].method = "SendDecision")
            => ENABLED MgrSendDecision(c))
  /\ [][\A c \in DOMAIN calls :
          Runs(c, "SendDecision") =>
            LET k == reg[calls[c].id]
                empty == IF k = 0 THEN FALSE ELSE Len(carriers[k].buf) < ChanCap
            IN /\ reg' = reg
               /\ IF empty
                    THEN /\ calls'[c].result = "true"
                         /\ carriers' = [carriers EXCEPT ![k].buf = <<calls[c].decision>>]
                    ELSE /\ calls'[c].result = "false"
                         /\ carriers' = carriers]_vars

\* a delivery was refused because the slot still held another goroutine's
\* decision
C13_Witness ==
  \E c \in DOMAIN calls :
    /\ calls[c].pc = "unlocking"
    /\ calls[c].method = "SendDecision"
    /\ calls[c].result = "false"
    /\ reg[calls[c].id] # 0
    /\ carriers[reg[calls[c].id]].buf # <<>>
    /\ Head(carriers[reg[calls[c].id]].buf) # calls[c].decision

\* C15: RemoveDecisionChannel is safe to call several times. The call that
\* finds the entry removes it and closes its carrier, which was open until
\* then; a call that finds no entry, because an earlier call or
\* CleanupExpiredChannels took it, changes neither the registry nor any
\* carrier; and no carrier is ever closed twice.
C15_CloseIdempotent ==
  /\ [](\A k \in DOMAIN carriers : carriers[k].closes <= 1)
  /\ [][\A c \in DOMAIN calls :
          Runs(c, "RemoveDecisionChannel") =>
            LET k == reg[calls[c].id] IN
              IF k = 0
                THEN reg' = reg /\ carriers' = carriers
                ELSE /\ reg' = [reg EXCEPT ![calls[c].id] = 0]
                     /\ carriers[k].closes = 0
                     /\ carriers' = [carriers EXCEPT ![k].closes = 1]]_vars

\* the deferred close of a waiter found no entry: its carrier had been
\* closed already, by CleanupExpiredChannels or by another close
C15_Witness ==
  \E c \in DOMAIN calls :
    /\ calls[c].pc = "unlocking"
    /\ calls[c].method = "RemoveDecisionChannel"
    /\ calls[c].wait
    /\ calls[c].result = "absent"
    /\ carriers[calls[c].ch].closes = 1

\* the steps of a goroutine that is inside a method of the manager
ManagerStep(c) ==
  \/ MgrCreateDecisionChannel(c)
  \/ MgrSendDecision(c)
  \/ MgrRemoveDecisionChannel(c)
  \/ MgrGetActiveDecisions(c)
  \/ MgrHasPendingDecision(c)
  \/ MgrCleanupExpiredChannels(c)
  \/ Unlock(c)

\* C16: a waiter parks on its carrier without holding the registry mutex,
\* neither for writing nor for reading, and so does a waiter that has left
\* its select; the mutex is held only by goroutines inside a method body,
\* each of which can take its next step towards the unlock. So with any
\* number of waiters parked the registry never deadlocks.
C16_ParkedWithoutLock ==
  /\ \A c \in DOMAIN calls : calls[c].pc \in {"parked", "woken", "idle"} => c \notin LockHolders
  /\ \A c \in LockHolders : calls[c].pc \in {"locked", "unlocking"} /\ ENABLED ManagerStep(c)
  /\ mu.writer # 0 => mu.readers = {}

\* CleanupExpiredChannels ran to its unlock while a waiter was parked
C16_Witness ==
  \E c1, c2 \in DOMAIN calls :
    /\ calls[c1].pc = "parked"
    /\ calls[c2].pc = "unlocking"
    /\ calls[c2].method = "CleanupExpiredChannels"
    /\ carriers[calls[c1].ch].closes = 1

\* ------------------------------------------- the timestamps of one task
\* domain.NewTask at the clock reading now: CreatedAt and UpdatedAt are the
\* same reading
NewTaskAt(now) ==
  [status |-> NewTask.status, action |-> NewTask.action, createdAt |-> now, updatedAt |-> now]

\* Task.TakeAction at the clock reading now: t.UpdatedAt = time.Now()
TakeActionAt(task, action, now) ==
  LET t == TakeAction([status |-> task.status, action |-> task.action], action) IN
    [status |-> t.status, action |-> t.action, createdAt |-> task.createdAt, updatedAt |-> now]

\* TaskRepository.Update on the row: SET status, updated_at, action_taken (and
\* the fields the model leaves out); created_at is not in the SET list
UpdateRow(ctxCancelled, row, task) ==
  IF ctxCancelled \/ row.status = Absent
    THEN row
    ELSE [row EXCEPT !.status = task.status, !.action = task.action,
                     !.updatedAt = task.updatedAt]

\* NewTask and taskRepo.Create, by CreateTaskAndWaitForDecision (blocking) or
\* by CreateTaskFromHook; every reading of the clock is later than the last
TmCreateTask(blocking) ==
  /\ tm.pc = "idle"
  /\ tm' = [tm EXCEPT !.now = @ + 1, !.pc = IF blocking THEN "waiting" ELSE "stored",
                      !.copy = NewTaskAt(tm.now), !.row = NewTaskAt(tm.now)]
  /\ UNCHANGED <<store, history, decisions, chans, w, resp, op, hreq, nreq,
                 dom, reg, carriers, mu, calls>>

\* the agent of the blocking request closes its connection
TmAgentDisconnect ==
  /\ tm.pc = "waiting"
  /\ ~tm.cancelled
  /\ tm' = [tm EXCEPT !.cancelled = TRUE]
  /\ UNCHANGED <<store, history, decisions, chans, w, resp, op, hreq, nreq,
                 dom, reg, carriers, mu, calls>>

\* CreateTaskAndWaitForDecision lines 240-246: WaitForDecision returned an
\* error; task.Status = Failed on the waiter's copy, then Update
TmWaitFails ==
  /\ tm.pc = "waiting"
  /\ LET task == [tm.copy EXCEPT !.status = TaskStatusFailed] IN
       tm' = [tm EXCEPT !.pc = "done", !.copy = task,
                        !.row = UpdateRow(tm.cancelled, tm.row, task)]
  /\ UNCHANGED <<store, history, decisions, chans, w, resp, op, hreq, nreq,
                 dom, reg, carriers, mu, calls>>

\* lines 248-253: task.TakeAction(decision) on the waiter's copy, then Update
TmWaitDecides(decision) ==
  /\ tm.pc = "waiting"
  /\ tm.now < MaxClock
  /\ LET task == TakeActionAt(tm.copy, decision, tm.now) IN
       tm' = [tm EXCEPT !.now = @ + 1, !.pc = "done", !.copy = task,
                        !.row = UpdateRow(tm.cancelled, tm.row, task)]
  /\ UNCHANGED <<store, history, decisions, chans, w, resp, op, hreq, nreq,
                 dom, reg, carriers, mu, calls>>

\* TaskService.TakeAction lines 127-143 for an operator request that finds
\* the task actionable: GetByID, task.TakeAction, Update
TmOperatorTakeAction(action) ==
  /\ tm.row.status # Absent
  /\ IsActionable(tm.row)
  /\ tm.now < MaxClock
  /\ tm' = [tm EXCEPT !.now = @ + 1,
                      !.row = UpdateRow(FALSE, tm.row, TakeActionAt(tm.row, action, tm.now))]
  /\ UNCHANGED <<store, history, decisions, chans, w, resp, op, hreq, nreq,
                 dom, reg, carriers, mu, calls>>

InitTimes == InitOver({}, {}, "idle")

NextTimes ==
  \/ \E blocking \in BOOLEAN : TmCreateTask(blocking)
  \/ TmAgentDisconnect
  \/ TmWaitFails
  \/ \E decision \in AnyActionInputs : TmWaitDecides(decision)
  \/ \E action \in EndpointInputs : TmOperatorTakeAction(action)

SpecTimes == InitTimes /\ [][NextTimes]_vars

\* C21: the stored task's updated_at is never before its created_at, and
\* created_at is strictly before updated_at exactly when the stored status is
\* no longer Pending (also when it left Pending by timeout or cancellation).
C21_StampsFollowStatus ==
  tm.row.status # Absent =>
    /\ tm.row.createdAt <= tm.row.updatedAt
    /\ (tm.row.createdAt < tm.row.updatedAt) <=> (tm.row.status # TaskStatusPending)

\* ------------------------------------------------- failures of the adapters
\* C22: when taskRepo.Create fails at the start of a blocking request, the
\* agent gets 500 "Failed to process blocking webhook", no decision channel is
\* registered or written for the task, the notifier is not called, no history
\* entry is written and no row is stored.
C22_CreateFailureAnswered ==
  \A t \in DOMAIN w :
    w[t].outcome = "create_failed" =>
      /\ w[t].pc = "done"
      /\ resp[t] = ErrorBody(500, "Failed to process blocking webhook")
      /\ t \notin decisions
      /\ chans[t] = [buf |-> <<>>, closed |-> FALSE]
      /\ w[t].notifier = "none"
      /\ history[t] = <<>>
      /\ store[t].status = Absent

\* the create failed and an operator request for the same id has been refused
C22_Witness ==
  \E t \in DOMAIN w, o \in DOMAIN op :
    /\ w[t].outcome = "create_failed"
    /\ op[o].task = t /\ op[o].pc = "done" /\ op[o].result = "error"

\* the entries of a task's history
Entries(t) == {history[t][i] : i \in 1..Len(history[t])}

\* the waiter of t has been through the select of WaitForDecision
Waited(t) == w[t].outcome \in {"decision", "timeout", "cancelled"}

\* C24: the notifier step never touches the store or the agent's response and
\* always leads to the wait, whatever the notifier returned; a request whose
\* notifier failed is answered only after it has waited; "notified" is in the
\* history only when the notifier call succeeded.
C24_NotifierFailureIgnored ==
  /\ [](\A t \in DOMAIN w :
          /\ HistoryActionNotified \in Entries(t) => w[t].notifier = "ok"
          /\ (w[t].notifier = "failed" /\ w[t].pc = "ready")
               => ENABLED CreateDecisionChannel(t)
          /\ (w[t].notifier = "failed" /\ resp[t] # NoResponse) => Waited(t))
  /\ [][\A t \in DOMAIN w :
          (w[t].pc = "logged" /\ w'[t].pc # "logged") =>
            /\ w'[t].pc = "ready"
            /\ store' = store
            /\ resp' = resp
            /\ (history' # history => w'[t].notifier = "ok")]_vars

\* the notifier failed, the request waited, and the operator's approval was
\* answered to the agent and stored
C24_Witness ==
  \E t \in DOMAIN w :
    /\ w[t].notifier = "failed"
    /\ w[t].pc = "done" /\ w[t].outcome = "decision"
    /\ resp[t] = BuildResponseFromDecision(ActionTypeApprove)
    /\ store[t].status = TaskStatusApproved
    /\ HistoryActionNotified \notin Entries(t)


\* C23: a request whose store write failed is answered 500, never with a
\* normal verdict.
C23_StoreFailureSurfaced ==
  (hreq.pc = "answered" /\ hreq.stored = "failed") => hreq.resp.code = 500


\* C25: the decision of an operator request made for a task that is unknown
\* or already terminal in the store is never placed in a decision channel.
C25_RefusedDecisionInert ==
  [][\A o \in DOMAIN op :
        (/\ op[o].pc = "checked" /\ op'[o].pc = "sent"
         /\ store[op[o].task].status \in TerminalStatuses \cup {Absent})
          => chans' = chans]_vars


\* ------------------------------------------- the decision endpoints' errors
\* the ids the operator posts to: 1 is a stored Pending task, 2 is a
\* well-formed id of no task
EndpointTasks == {1, 2}

\* handleTaskAction / handleTaskActionAPI: uuid.Parse fails and the handler
\* answers at once
OpInvalidId(o) ==
  /\ op[o].pc = "idle"
  /\ IF o = 1 THEN TRUE ELSE op[o - 1].pc # "idle"
  /\ op' = [op EXCEPT ![o] = [IdleOp EXCEPT !.pc = "done", !.result = "invalid"]]
  /\ UNCHANGED <<store, history, decisions, chans, w, resp, hreq, nreq, aux>>

InitEndpoints ==
  /\ store = [t \in EndpointTasks |->
                IF t = 1 THEN NewTask ELSE [status |-> Absent, action |-> NoAction]]
  /\ history = [t \in EndpointTasks |-> IF t = 1 THEN <<HistoryActionCreated>> ELSE <<>>]
  /\ decisions = {}
  /\ chans = [t \in EndpointTasks |-> [buf |-> <<>>, closed |-> FALSE]]
  /\ w = [t \in EndpointTasks |-> IdleWaiter]
  /\ resp = [t \in EndpointTasks |-> NoResponse]
  /\ op = [o \in 1..MaxOps |-> IdleOp]
  /\ hreq = IdleRequest
  /\ nreq = 0
  /\ InitDomain
  /\ InitManager({}, {})

NextEndpoints ==
  \/ \E o \in DOMAIN op, t \in EndpointTasks, action \in EndpointInputs :
       OpStart(o, t, action)
  \/ \E o \in DOMAIN op : OpInvalidId(o)
  \/ \E o \in DOMAIN op : OpLoad(o)
  \/ \E o \in DOMAIN op : OpUpdate(o)
  \/ \E o \in DOMAIN op : OpFinish(o)

SpecEndpoints == InitEndpoints /\ [][NextEndpoints]_vars

\* C26: on both endpoints a request with an invalid task id is answered 400,
\* a request for an id of no task 404, and a request refused for a task that
\* is not actionable 500.
C26_EndpointErrors ==
  \A o \in DOMAIN op, endpoint \in Endpoints :
    op[o].pc = "done" =>
      StatusCode(endpoint, op[o].result) =
        CASE op[o].result = "invalid" -> 400
          [] op[o].result = "error" ->
               IF store[op[o].task].status = Absent THEN 404 ELSE 500
          [] OTHER -> StatusCode(endpoint, "ok")


\* ------------------------------------------------ the gateway stops and restarts
\* main returns (or the process is killed) while the request of task t is
\* parked in its select: the goroutines of the waiter and of the operator
\* requests in flight end without another step, the decision manager and its
\* channels are gone with the process, the tasks table is untouched. The new
\* process starts with NewTaskService: an empty manager.
GatewayStop(t) ==
  /\ w[t].pc = "parked"
  /\ w' = [w EXCEPT ![t].pc = "crashed"]
  /\ decisions' = {}
  /\ chans' = [u \in DOMAIN chans |-> [buf |-> <<>>, closed |-> FALSE]]
  /\ op' = [o \in DOMAIN op |->
              IF op[o].pc \in {"idle", "done"} THEN op[o]
              ELSE [op[o] EXCEPT !.pc = "done", !.result = "lost"]]
  /\ UNCHANGED <<store, history, resp, hreq, nreq, aux>>

\* the request parks and stays parked until the process ends; operator
\* requests arrive before and after the restart
NextRestart ==
  \/ \E t \in DOMAIN w, hookType \in HookTypeInputs : CreateTask(t, hookType)
  \/ \E t \in DOMAIN w : RecordCreated(t)
  \/ \E t \in DOMAIN w : Notify(t)
  \/ \E t \in DOMAIN w : CreateDecisionChannel(t)
  \/ \E t \in DOMAIN w : GatewayStop(t)
  \/ \E o \in DOMAIN op, t \in DOMAIN w, action \in ActionInputs : OpStart(o, t, action)
  \/ \E o \in DOMAIN op : OpSendDecision(o)
  \/ \E o \in DOMAIN op : OpLoad(o)
  \/ \E o \in DOMAIN op : OpUpdate(o)
  \/ \E o \in DOMAIN op : OpFinish(o)

SpecRestart == Init /\ [][NextRestart]_vars

\* the operator requests that have run taskRepo.Update for task t
Writers(t) == {o \in DOMAIN op : op[o].task = t /\ op[o].wrote}

C28_ImmediateStoredCompleted ==
  \A t \in DOMAIN store :
    store[t].status # Absent => store[t].status = TaskStatusCompleted


\* the URL slug registered for an event kind
OwnSlug(kind) ==
  CASE kind = HookTypeNotification -> "notification"
    [] kind = HookTypeStop -> "stop"
    [] kind = HookTypeUserPromptSubmit -> "user-prompt-submit"
    [] OTHER -> "pre-tool-use"

\* C29: a request whose body names a valid event kind is handled as that
\* kind on every URL: the kind used for the task, whether CreateTask is
\* called, and suppressOutput are those of the kind's own URL.
C29_BodyWins ==
  (hreq.pc = "answered" /\ hreq.resp.code = 200 /\ IsValid(hreq.event)) =>
    LET own == Route(OwnSlug(hreq.event)) IN
      /\ hreq.hookType = hreq.event
      /\ (hreq.stored # "none") = CreatesTask(own, hreq.event)
      /\ hreq.resp.suppressOutput = SuppressOutput(own, hreq.event)

\* C30: every immediate answer has continue = true; suppressOutput is true
\* for PreToolUse and PostToolUse events and false for Notification events.
C30_ImmediateAnswer ==
  (hreq.pc = "answered" /\ hreq.resp.code = 200) =>
    /\ hreq.resp.continue
    /\ hreq.hookType \in {HookTypePreToolUse, HookTypePostToolUse}
         => hreq.resp.suppressOutput
    /\ hreq.hookType = HookTypeNotification => ~hreq.resp.suppressOutput


\* the event kinds the routing policy persists
PersistedKinds ==
  {HookTypePreToolUse, HookTypeNotification, HookTypeUserPromptSubmit, HookTypeStop,
   HookTypeSubagentStop}

\* C31: the handler of an immediate event calls CreateTask exactly when the
\* event's kind is PreToolUse, Notification, UserPromptSubmit, Stop or
\* SubagentStop (and not for PostToolUse or PreCompact).
C31_PersistedKinds ==
  (hreq.pc = "answered" /\ hreq.resp.code = 200) =>
    ((hreq.stored # "none") <=> (hreq.hookType \in PersistedKinds))


\* ----------------------------------------------- validation of the request
\* NewWebhookHandler: maxBodySize, 1 MiB
maxBodySize == 1024 * 1024

\* validateRequest: the longest command it accepts
MaxCommandLength == 5000

\* command lengths in characters, around the limit and around half of it
CommandLens == {0, 1, 2500, 2501, 5000, 5001}

\* bytes per character of the command: ASCII, or two-byte characters
CharWidths == {1, 2}

\* body sizes in bytes, around maxBodySize (each holds the longest command)
BodySizes == {20000, maxBodySize, maxBodySize + 1}

\* the URLs the validated requests are posted to
ValidatedSlugs == {"pre-tool-use", "notification"}

\* Go's len(req.ToolInput.Command): the number of bytes of the string
CommandLen(req) == req.command * req.width

\* validateRequest: the only check that returns an error is the command's
\* length (the other checks log a warning)
validateRequest(req) ==
  IF req.command # 0 /\ CommandLen(req) > MaxCommandLength
    THEN "command too long"
    ELSE ""

\* parseAndValidateRequest: io.ReadAll(r.Body) reads the body whatever its
\* size; then the JSON is parsed and validateRequest is run
parseAndValidateRequest(req) == validateRequest(req)

\* a POST /webhook/<slug> with a body of bodySize bytes and a command of
\* command characters
PostBody(slug, command, width, bodySize) ==
  /\ hreq.pc \in {"idle", "answered"}
  /\ nreq < MaxRequests
  /\ nreq' = nreq + 1
  /\ hreq' = [IdleRequest EXCEPT !.pc = "routed", !.slug = slug,
                                 !.handler = Route(slug),
                                 !.hookType = HandlerHookType(Route(slug), slug),
                                 !.command = command, !.width = width,
                                 !.bodySize = bodySize]
  /\ UNCHANGED <<store, history, decisions, chans, w, resp, op, aux>>

NextValidation ==
  \/ \E slug \in ValidatedSlugs, command \in CommandLens, width \in CharWidths,
        bodySize \in BodySizes : PostBody(slug, command, width, bodySize)
  \/ parseAndValidateRequest(hreq) # "" /\ RejectHook
  \/ parseAndValidateRequest(hreq) = "" /\ ParseHook
  \/ AnswerHook

SpecValidation == InitIngress /\ [][NextValidation]_vars

\* C32: a request whose command is longer than 5000 characters is answered
\* 400 and no CreateTask call is made for it; a request whose command has
\* 5000 characters or fewer is not answered 400.
C32_CommandLimit ==
  hreq.pc = "answered" =>
    IF hreq.command > MaxCommandLength
      THEN /\ hreq.resp.code = 400
           /\ hreq.stored = "none"
           /\ store[nreq].status = Absent /\ history[nreq] = <<>>
      ELSE hreq.resp.code # 400

\* C33: a request whose body is larger than 1 MiB is answered 400 and no
\* task is created for it.
C33_BodyLimit ==
  (hreq.pc = "answered" /\ hreq.bodySize > maxBodySize) =>
    /\ hreq.resp.code = 400
    /\ hreq.stored = "none"
    /\ store[nreq].status = Absent


\* ------------------------------------------ the write deadline and the wait
\* all times in seconds. http.Server of cmd/server: ReadTimeout bounds the
\* reading of the whole request; the write deadline is set to WriteTimeout
\* after the moment the request's header has been read.
ReadTimeout == 15

\* the debug server's write timeout
WriteTimeoutDebug == 30

WriteTimeout == 6 * 60

\* handleBlockingWebhook: 5*time.Minute
DecisionSeconds == 5 * 60

\* http.Client of the NTFY sender: Timeout
NotifierTimeout == 30

\* how long a step can take: at once, or as long as its limit lets it
Delays(limit) == {0, limit}

\* the seconds after the wait began at which an operator's decision arrives
DecisionOffsets == {1, 150, 299}

\* a step took d seconds
After(d, pc) == [tm EXCEPT !.now = @ + d, !.pc = pc]

\* the header of a blocking request has been read: net/http sets the write
\* deadline
WtAccept ==
  /\ tm.pc = "idle"
  /\ tm' = [tm EXCEPT !.pc = "accepted", !.deadline = tm.now + WriteTimeout]
  /\ UNCHANGED <<store, history, decisions, chans, w, resp, op, hreq, nreq,
                 dom, reg, carriers, mu, calls>>

\* parseAndValidateRequest: io.ReadAll(r.Body), within ReadTimeout
WtReadBody(d) ==
  /\ tm.pc = "accepted"
  /\ tm' = After(d, "parsed")
  /\ UNCHANGED <<store, history, decisions, chans, w, resp, op, hreq, nreq,
                 dom, reg, carriers, mu, calls>>

\* taskRepo.Create, then the "created" history entry
WtCreate(d1, d2) ==
  /\ tm.pc = "parsed"
  /\ tm' = After(d1 + d2, "stored")
  /\ UNCHANGED <<store, history, decisions, chans, w, resp, op, hreq, nreq,
                 dom, reg, carriers, mu, calls>>

\* sendNotification: the NTFY call, within the client's Timeout, and the
\* "notified" history entry
WtNotify(d1, d2) ==
  /\ tm.pc = "stored"
  /\ tm' = After(d1 + d2, "notified")
  /\ UNCHANGED <<store, history, decisions, chans, w, resp, op, hreq, nreq,
                 dom, reg, carriers, mu, calls>>

\* WaitForDecision enters its select: time.After(timeout) starts the timer
WtPark ==
  /\ tm.pc = "notified"
  /\ tm' = [tm EXCEPT !.pc = "parked", !.fires = tm.now + DecisionSeconds]
  /\ UNCHANGED <<store, history, decisions, chans, w, resp, op, hreq, nreq,
                 dom, reg, carriers, mu, calls>>

\* case <-time.After(timeout)
WtTimeoutFires ==
  /\ tm.pc = "parked"
  /\ tm' = [tm EXCEPT !.now = tm.fires, !.pc = "woken", !.timedOut = TRUE]
  /\ UNCHANGED <<store, history, decisions, chans, w, resp, op, hreq, nreq,
                 dom, reg, carriers, mu, calls>>

\* case decision := <-decisionChan, before the timer fires
WtDecisionArrives(offset) ==
  /\ tm.pc = "parked"
  /\ tm' = After(offset, "woken")
  /\ UNCHANGED <<store, history, decisions, chans, w, resp, op, hreq, nreq,
                 dom, reg, carriers, mu, calls>>

\* taskRepo.Update of the outcome (and the decision's history entry)
WtStoreOutcome(d) ==
  /\ tm.pc = "woken"
  /\ tm' = After(d, "answering")
  /\ UNCHANGED <<store, history, decisions, chans, w, resp, op, hreq, nreq,
                 dom, reg, carriers, mu, calls>>

\* respondWithJSON: a write after the write deadline fails
WtWrite ==
  /\ tm.pc = "answering"
  /\ tm' = [tm EXCEPT !.pc = "answered",
                      !.written = IF tm.now < tm.deadline THEN "ok" ELSE "lost"]
  /\ UNCHANGED <<store, history, decisions, chans, w, resp, op, hreq, nreq,
                 dom, reg, carriers, mu, calls>>

NextDeadline ==
  \/ WtAccept
  \/ \E d \in Delays(ReadTimeout) : WtReadBody(d)
  \/ \E d1, d2 \in Delays(MaxDbDelay) : WtCreate(d1, d2)
  \/ \E d1 \in Delays(NotifierTimeout), d2 \in Delays(MaxDbDelay) : WtNotify(d1, d2)
  \/ WtPark
  \/ WtTimeoutFires
  \/ \E offset \in DecisionOffsets : WtDecisionArrives(offset)
  \/ \E d \in Delays(MaxDbDelay) : WtStoreOutcome(d)
  \/ WtWrite

SpecDeadline == InitTimes /\ [][NextDeadline]_vars

C35_DecisionWasDelivered ==
  \A t \in DOMAIN w :
    w[t].outcome = "decision" =>
      \E o \in DOMAIN op :
        op[o].task = t /\ op[o].delivered /\ op[o].action = w[t].decision


\* C36: when a blocking request has answered its agent from an operator
\* decision and every operator request has ended, the stored status and
\* action_taken are those of that decision.
C36_AgentAndRecordAgree ==
  \A t \in DOMAIN w :
    (/\ w[t].pc = "done" /\ w[t].outcome = "decision" /\ ~w[t].cancelled
     /\ w[t].decision # NoAction
     /\ \A o \in DOMAIN op : op[o].pc \in {"idle", "done"})
      => store[t] = TakeAction(NewTask, w[t].decision)


\* C37: when SendDecision returned true for a task, the task's waiter comes
\* back from WaitForDecision with that decision, not with a timeout or a
\* cancellation.
C37_DeliveredWins ==
  \A o \in DOMAIN op :
    (op[o].delivered /\ w[op[o].task].outcome # "none") =>
      /\ w[op[o].task].outcome = "decision"
      /\ w[op[o].task].decision = op[o].action


\* C38: every channel the registry map names is open, and no SendDecision
\* ends in a panic for a send on a closed channel.
C38_RegisteredOpen ==
  /\ \A i \in DOMAIN reg :
       reg[i] # 0 => carriers[reg[i]].live /\ carriers[reg[i]].closes = 0
  /\ \A c \in DOMAIN calls :
       calls[c].method = "SendDecision" => calls[c].result # "panic"

\* a SendDecision found no entry and returned false while the channel of the
\* id, closed by CleanupExpiredChannels, was still held by its parked waiter
C38_Witness ==
  \E c \in DOMAIN calls, c2 \in DOMAIN calls :
    /\ calls[c].pc = "unlocking" /\ calls[c].method = "SendDecision"
    /\ calls[c].result = "false" /\ reg[calls[c].id] = 0
    /\ calls[c2].pc = "parked" /\ calls[c2].id = calls[c].id
    /\ carriers[calls[c2].ch].closes = 1


\* ------------------------------------------------ waiters on two task ids
\* two blocking requests, each waiting on its own task id, and the operator
\* requests that send decisions to them
IsolationIds == {1, 2}

\* goroutine i waits on task id i
IsolationWaiters == IsolationIds

\* the goroutine of the operator requests
IsolationSenders == {3}

\* the decision the operator sends to a task: approve to the first, reject
\* to the second
DecisionFor(id) == IF id = 1 THEN ActionTypeApprove ELSE ActionTypeReject

InitIsolation ==
  /\ InitCore({}, {}, "idle", [status |-> Absent, action |-> NoAction], <<>>)
  /\ InitDomain
  /\ InitManager(IsolationIds, IsolationWaiters \cup IsolationSenders)

NextIsolation ==
  \/ \E c \in IsolationWaiters : WaitForDecision(c, c)
  \/ \E c \in IsolationWaiters : MgrCreateDecisionChannel(c)
  \/ \E c \in IsolationSenders, id \in IsolationIds :
        RLock(c, "SendDecision", id, DecisionFor(id))
  \/ \E c \in IsolationSenders : MgrSendDecision(c)
  \/ \E c \in IsolationWaiters : WaitReceive(c)
  \/ \E c \in IsolationWaiters : WaitTimeout(c)
  \/ \E c \in IsolationWaiters : WaitContextDone(c)
  \/ \E c \in IsolationWaiters : WaitDeferredRemove(c)
  \/ \E c \in IsolationWaiters : MgrRemoveDecisionChannel(c)
  \/ \E c \in DOMAIN calls : Unlock(c)

SpecIsolation == InitIsolation /\ [][NextIsolation]_vars

\* the task id a step of goroutine c is made for
ActsFor(c) == IF calls[c].pc = "idle" THEN calls'[c].id ELSE calls[c].id

\* C39: a waiter receives only the decision sent to its own task id; a
\* parked waiter's channel is the one registered under its id and is open;
\* and no step made for one task id (a delivery, a waiter's exit with its
\* close) changes the entry or the channel of another id.
C39_Isolated ==
  /\ [](\A c \in DOMAIN calls :
          /\ (calls[c].pc = "woken" /\ calls[c].result = "decision")
               => calls[c].decision = DecisionFor(calls[c].id)
          /\ calls[c].pc = "parked"
               => /\ reg[calls[c].id] = calls[c].ch
                  /\ carriers[calls[c].ch].closes = 0)
  /\ [][\A c \in DOMAIN calls, j \in IsolationIds :
          (calls'[c] # calls[c] /\ ActsFor(c) # j) =>
            /\ reg'[j] = reg[j]
            /\ reg[j] # 0 => carriers'[reg[j]] = carriers[reg[j]]]_vars

\* the first waiter has closed and removed its channel while the second is
\* parked on its own channel, registered and holding the decision sent to it
C39_Witness ==
  /\ calls[1].pc = "unlocking" /\ calls[1].method = "RemoveDecisionChannel"
  /\ calls[1].result = "closed" /\ reg[1] = 0
  /\ calls[2].pc = "parked" /\ reg[2] = calls[2].ch
  /\ carriers[calls[2].ch] = [buf |-> <<ActionTypeReject>>, closes |-> 0, live |-> TRUE]

====
